---- MODULE Spec2Model ----
(***************************************************************************)
(* thisconfig: layered TOML configuration loader.                          *)
(*                                                                         *)
(* Texts are sequences of one-character strings.  The module models        *)
(*   - Interpolator (interpolation.rs): the two environment loops and the  *)
(*     two file loops, with regex_lite's leftmost/greedy captures_iter and  *)
(*     str::replace (every occurrence of the literal token);               *)
(*   - ConfigBuilder (builder.rs): add_file / add_required_file /          *)
(*     add_toml_str, build, load (one loop iteration per step) and         *)
(*     merge_tables;                                                       *)
(*   - the part of TOML the sources of the model are written in.           *)
(***************************************************************************)
EXTENDS Integers, Sequences, FiniteSets, TLC

----------------------------------------------------------------------------
(* Text primitives.  An operand that is itself a computed text is bound   *)
(* once, as x in {f(x) : x \in {operand}}, before it is scanned.          *)

\* s[i..] starts with the literal lit
IsAt(s, lit, i) ==
    /\ i >= 1
    /\ i + Len(lit) - 1 <= Len(s)
    /\ SubSeq(s, i, i + Len(lit) - 1) = lit

\* some occurrence of lit in s
Contains(s, lit) == \E i \in 1..Len(s) : IsAt(s, lit, i)

\* end of the longest run s[i..j] of characters of class C (i-1 when empty)
RunEndAt(s, i, C) ==
    CHOOSE j \in (i - 1)..Len(s) :
        /\ \A k \in i..j : s[k] \in C
        /\ (j = Len(s) \/ s[j + 1] \notin C)

RunEnd(s, i, C) == CHOOSE r \in {RunEndAt(s, x, C) : x \in {i}} : TRUE

\* end of the longest run s[i..j] of characters outside Excl (i-1 when empty)
RunEndNotAt(s, i, Excl) ==
    CHOOSE j \in (i - 1)..Len(s) :
        /\ \A k \in i..j : s[k] \notin Excl
        /\ (j = Len(s) \/ s[j + 1] \in Excl)

RunEndNot(s, i, Excl) == CHOOSE r \in {RunEndNotAt(s, x, Excl) : x \in {i}} : TRUE

RECURSIVE ReplaceFrom(_, _, _, _)
ReplaceFrom(s, from, to, i) ==
    IF i > Len(s) THEN << >>
    ELSE IF IsAt(s, from, i)
         THEN to \o ReplaceFrom(s, from, to, i + Len(from))
         ELSE << s[i] >> \o ReplaceFrom(s, from, to, i + 1)

\* a str::replace that rewrites only the first occurrence
ReplaceFirstIn(s, from, to) ==
    IF \E i \in 1..Len(s) : IsAt(s, from, i)
    THEN LET i == CHOOSE i \in 1..Len(s) :
                    IsAt(s, from, i) /\ \A j \in 1..(i - 1) : ~IsAt(s, from, j)
         IN SubSeq(s, 1, i - 1) \o to \o SubSeq(s, i + Len(from), Len(s))
    ELSE s

replace_first(s, from, to) ==
    CHOOSE r \in {ReplaceFirstIn(x, y, z) : x \in {s}, y \in {from}, z \in {to}} : TRUE

\* str::replace: every non-overlapping occurrence, left to right
replace(s, from, to) ==
    CHOOSE r \in {ReplaceFrom(x, y, z, 1) : x \in {s}, y \in {from}, z \in {to}} : TRUE

----------------------------------------------------------------------------
(* Character classes of the regular expressions *)

Letters == {"X", "Y", "v", "w", "d", "f", "i", "l", "e", "p", "q", "a", "b", "c"}
Digits  == {"1", "2", "3", "4", "5"}

\* [A-Za-z_]
NameStart == Letters \cup {"_"}
\* [A-Za-z0-9_]
NameChar == Letters \cup Digits \cup {"_"}
\* \s
Space == {" ", "\n", "\t"}
\* excluded by [^:"'\s]
PathExcl == {":", "\"", "'"} \cup Space
\* excluded by [^:\s"'`\]\)]  (the backquote is not a character of the model's texts)
TailExcl == {":", "\"", "'", "]", ")"} \cup Space

NoMatch == [ok |-> FALSE]

\* \$\{([A-Za-z_][A-Za-z0-9_]*):([^}]*)\}  matched at position i
env_var_with_fallback_re(s, i) ==
    IF ~(IsAt(s, << "$", "{" >>, i) /\ i + 2 <= Len(s) /\ s[i + 2] \in NameStart)
    THEN NoMatch
    ELSE LET ne == RunEnd(s, i + 2, NameChar)
         IN IF ~(ne + 1 <= Len(s) /\ s[ne + 1] = ":")
            THEN NoMatch
            ELSE LET de == RunEndNot(s, ne + 2, {"}"})
                 IN IF de + 1 <= Len(s)
                    THEN [ok |-> TRUE, last |-> de + 1,
                          full |-> SubSeq(s, i, de + 1),
                          g1 |-> SubSeq(s, i + 2, ne),
                          g2 |-> SubSeq(s, ne + 2, de)]
                    ELSE NoMatch

\* \$\{?([A-Za-z_][A-Za-z0-9_]*)\}?  with both braces or none: $NAME too
env_var_braced_or_bare_re(s, i) ==
    IF IsAt(s, << "$", "{" >>, i) /\ i + 2 <= Len(s) /\ s[i + 2] \in NameStart
    THEN LET ne == RunEnd(s, i + 2, NameChar)
         IN IF ne + 1 <= Len(s) /\ s[ne + 1] = "}"
            THEN [ok |-> TRUE, last |-> ne + 1,
                  full |-> SubSeq(s, i, ne + 1),
                  g1 |-> SubSeq(s, i + 2, ne),
                  g2 |-> << >>]
            ELSE NoMatch
    ELSE IF IsAt(s, << "$" >>, i) /\ i + 1 <= Len(s) /\ s[i + 1] \in NameStart
    THEN LET ne == RunEnd(s, i + 1, NameChar)
         IN [ok |-> TRUE, last |-> ne,
             full |-> SubSeq(s, i, ne),
             g1 |-> SubSeq(s, i + 1, ne),
             g2 |-> << >>]
    ELSE NoMatch

\* \$\{([A-Za-z_][A-Za-z0-9_]*)\}  matched at position i
env_var_braced_re(s, i) ==
    IF ~(IsAt(s, << "$", "{" >>, i) /\ i + 2 <= Len(s) /\ s[i + 2] \in NameStart)
    THEN NoMatch
    ELSE LET ne == RunEnd(s, i + 2, NameChar)
         IN IF ne + 1 <= Len(s) /\ s[ne + 1] = "}"
            THEN [ok |-> TRUE, last |-> ne + 1,
                  full |-> SubSeq(s, i, ne + 1),
                  g1 |-> SubSeq(s, i + 2, ne),
                  g2 |-> << >>]
            ELSE NoMatch

FilePrefix == << "f", "i", "l", "e", ":" >>

\* file:([^:"'\s]+):([^:\s"'`\]\)]+)  matched at position i
file_with_fallback_re(s, i) ==
    IF ~IsAt(s, FilePrefix, i)
    THEN NoMatch
    ELSE LET pe == RunEndNot(s, i + 5, PathExcl)
         IN IF ~(pe >= i + 5 /\ pe + 1 <= Len(s) /\ s[pe + 1] = ":")
            THEN NoMatch
            ELSE LET de == RunEndNot(s, pe + 2, TailExcl)
                 IN IF de >= pe + 2
                    THEN [ok |-> TRUE, last |-> de,
                          full |-> SubSeq(s, i, de),
                          g1 |-> SubSeq(s, i + 5, pe),
                          g2 |-> SubSeq(s, pe + 2, de)]
                    ELSE NoMatch

\* file:([^:\s"'`\]\)]+)  matched at position i
file_simple_re(s, i) ==
    IF ~IsAt(s, FilePrefix, i)
    THEN NoMatch
    ELSE LET pe == RunEndNot(s, i + 5, TailExcl)
         IN IF pe >= i + 5
            THEN [ok |-> TRUE, last |-> pe,
                  full |-> SubSeq(s, i, pe),
                  g1 |-> SubSeq(s, i + 5, pe),
                  g2 |-> << >>]
            ELSE NoMatch

\* the four compiled expressions, by name
regex_at(re, s, i) ==
    CASE re = "env_var_with_fallback_re" -> env_var_with_fallback_re(s, i)
      [] re = "env_var_braced_re"        -> env_var_braced_re(s, i)
      [] re = "file_with_fallback_re"    -> file_with_fallback_re(s, i)
      [] re = "file_simple_re"           -> file_simple_re(s, i)

\* Regex::captures_iter: the successive leftmost non-overlapping matches
RECURSIVE CapturesFrom(_, _, _)
CapturesFrom(re, s, i) ==
    IF i > Len(s) THEN << >>
    ELSE LET m == regex_at(re, s, i)
         IN IF m.ok
            THEN << m >> \o CapturesFrom(re, s, m.last + 1)
            ELSE CapturesFrom(re, s, i + 1)

captures_iter(re, s) == CHOOSE r \in {CapturesFrom(re, x, 1) : x \in {s}} : TRUE

----------------------------------------------------------------------------
(* Environment and file system as the Interpolator and the loader read them *)

Ok(t)  == [ok |-> TRUE, text |-> t]
Err(e) == [ok |-> FALSE, err |-> e]

\* std::env::var: Ok(value) when the variable is set
env_var(e, name) ==
    IF name \in DOMAIN e THEN Ok(e[name]) ELSE Err("NotPresent")

\* Path::exists
path_exists(f, path) == path \in DOMAIN f

\* std::fs::read_to_string: the content, or the I/O error
read_to_string(f, path) ==
    IF path \notin DOMAIN f THEN Err("NotFound")
    ELSE IF f[path].kind = "file" THEN Ok(f[path].content)
    ELSE Err("InvalidData")

----------------------------------------------------------------------------
(* Interpolator *)

HasChar(s, c) == \E i \in 1..Len(s) : s[i] = c

\* the characters of a basic string, escaped; a multi-line one keeps its newlines
RECURSIVE EscapeFrom(_, _, _)
EscapeFrom(s, i, multiline) ==
    IF i > Len(s) THEN << >>
    ELSE (CASE s[i] = "\"" -> << "\\", "\"" >>
            [] s[i] = "\\" -> << "\\", "\\" >>
            [] s[i] = "\n" -> IF multiline THEN << "\n" >> ELSE << "\\", "n" >>
            [] s[i] = "\t" -> << "\\", "t" >>
            [] OTHER       -> << s[i] >>) \o EscapeFrom(s, i + 1, multiline)

\* escaping as for a one-line basic string, whatever the content
escape_basic(s) == EscapeFrom(s, 1, FALSE)

\* a literal string cannot hold three single quotes in a row nor end in one
LiteralFits(s) ==
    /\ ~ \E i \in 1..Len(s) : IsAt(s, << "'", "'", "'" >>, i)
    /\ (s = << >> \/ s[Len(s)] # "'")

\* Value::String(s).to_string(): the toml crate writes a literal string when
\* the content has a backslash or a double quote and fits in one, a
\* multi-line string when it has a newline, a basic string otherwise
value_to_string(s) ==
    LET newline == HasChar(s, "\n")
        literal == (HasChar(s, "\\") \/ HasChar(s, "\"")) /\ LiteralFits(s)
    IN  IF literal
        THEN IF newline THEN << "'", "'", "'", "\n" >> \o s \o << "'", "'", "'" >>
             ELSE IF HasChar(s, "'") THEN << "'", "'", "'" >> \o s \o << "'", "'", "'" >>
             ELSE << "'" >> \o s \o << "'" >>
        ELSE IF newline
             THEN << "\"", "\"", "\"", "\n" >> \o EscapeFrom(s, 1, TRUE)
                      \o << "\"", "\"", "\"" >>
             ELSE << "\"" >> \o EscapeFrom(s, 1, FALSE) \o << "\"" >>

\* str::strip_prefix('"') and then str::strip_suffix('"')
strip_quotes(t) ==
    IF Len(t) >= 2 /\ t[1] = "\"" /\ t[Len(t)] = "\""
    THEN [some |-> TRUE, inner |-> SubSeq(t, 2, Len(t) - 1)]
    ELSE [some |-> FALSE]

\* escape_toml_string: the text of Value::String(s) without one pair of
\* double quotes, or all of it when it is not between double quotes
escape_toml_string(s) ==
    CHOOSE r \in { IF strip_quotes(toml_str).some
                   THEN strip_quotes(toml_str).inner
                   ELSE toml_str : toml_str \in { value_to_string(s) } } : TRUE

\* a fallback loop that takes an empty default for no default
RECURSIVE EnvFallbackFromB(_, _, _, _)
EnvFallbackFromB(caps, k, result, e) ==
    IF k > Len(caps) THEN result
    ELSE LET v == env_var(e, caps[k].g1)
             replacement == IF v.ok THEN v.text
                            ELSE IF caps[k].g2 = << >> THEN caps[k].full
                            ELSE caps[k].g2
         IN EnvFallbackFromB(caps, k + 1,
                             replace(result, caps[k].full, replacement), e)

\* interpolate_env_variables, first loop: ${VAR:default} over the captures of
\* the input text
RECURSIVE EnvFallbackFrom(_, _, _, _)
EnvFallbackFrom(caps, k, result, e) ==
    IF k > Len(caps) THEN result
    ELSE LET v == env_var(e, caps[k].g1)
             replacement == IF v.ok THEN v.text ELSE caps[k].g2
         IN EnvFallbackFrom(caps, k + 1,
                            replace(result, caps[k].full, replacement), e)

env_fallback_loop_nonempty(content, e) ==
    CHOOSE r \in {EnvFallbackFromB(caps, 1, content, e) :
                    caps \in {captures_iter("env_var_with_fallback_re", content)}} : TRUE

env_fallback_loop(content, e) ==
    CHOOSE r \in {EnvFallbackFrom(caps, 1, content, e) :
                    caps \in {captures_iter("env_var_with_fallback_re", content)}} : TRUE

\* interpolate_env_variables, second loop: ${VAR} over the captures of the
\* first loop's result; the first unset variable ends it with an error
RECURSIVE EnvBracedFrom(_, _, _, _)
EnvBracedFrom(caps, k, result, e) ==
    IF k > Len(caps) THEN Ok(result)
    ELSE LET v == env_var(e, caps[k].g1)
         IN IF ~v.ok
            THEN Err([kind |-> "env_not_found", name |-> caps[k].g1])
            ELSE EnvBracedFrom(caps, k + 1,
                               replace(result, caps[k].full, v.text), e)

\* a second loop for which an unset variable expands to nothing
RECURSIVE EnvBracedFromBlank(_, _, _, _)
EnvBracedFromBlank(caps, k, result, e) ==
    IF k > Len(caps) THEN Ok(result)
    ELSE LET v == env_var(e, caps[k].g1)
         IN EnvBracedFromBlank(caps, k + 1,
                               replace(result, caps[k].full,
                                       IF v.ok THEN v.text ELSE << >>), e)

env_braced_loop_blank(content, e) ==
    CHOOSE r \in {EnvBracedFromBlank(caps, 1, content, e) :
                    caps \in {captures_iter("env_var_braced_re", content)}} : TRUE

env_braced_loop(content, e) ==
    CHOOSE r \in {EnvBracedFrom(caps, 1, content, e) :
                    caps \in {captures_iter("env_var_braced_re", content)}} : TRUE

interpolate_env_variables(content, e) ==
    CHOOSE r \in {env_braced_loop(result, e) :
                    result \in {env_fallback_loop(content, e)}} : TRUE

\* interpolate_files, first loop: file:PATH:DEFAULT
RECURSIVE FileFallbackFrom(_, _, _, _)
FileFallbackFrom(caps, k, result, f) ==
    IF k > Len(caps) THEN result
    ELSE LET r == read_to_string(f, caps[k].g1)
             replacement == IF r.ok THEN escape_toml_string(r.text) ELSE caps[k].g2
         IN FileFallbackFrom(caps, k + 1,
                             replace(result, caps[k].full, replacement), f)

file_fallback_loop(content, f) ==
    CHOOSE r \in {FileFallbackFrom(caps, 1, content, f) :
                    caps \in {captures_iter("file_with_fallback_re", content)}} : TRUE

\* interpolate_files, second loop: file:PATH; a failed read ends it with an error
RECURSIVE FileSimpleFrom(_, _, _, _)
FileSimpleFrom(caps, k, result, f) ==
    IF k > Len(caps) THEN Ok(result)
    ELSE LET r == read_to_string(f, caps[k].g1)
         IN IF ~r.ok
            THEN Err([kind |-> "file_read", path |-> caps[k].g1, io |-> r.err])
            ELSE FileSimpleFrom(caps, k + 1,
                                replace(result, caps[k].full,
                                        escape_toml_string(r.text)), f)

file_simple_loop(content, f) ==
    CHOOSE r \in {FileSimpleFrom(caps, 1, content, f) :
                    caps \in {captures_iter("file_simple_re", content)}} : TRUE

interpolate_files(content, f) ==
    CHOOSE r \in {file_simple_loop(result, f) :
                    result \in {file_fallback_loop(content, f)}} : TRUE

interpolate(content, e, f) ==
    CHOOSE r \in {IF env_expanded.ok
                  THEN interpolate_files(env_expanded.text, f)
                  ELSE env_expanded :
                    env_expanded \in {interpolate_env_variables(content, e)}} : TRUE

----------------------------------------------------------------------------
(* toml::Table and toml::Value.  A table is a function from keys (texts) to  *)
(* values; a value is an integer, a string or a table.                       *)

EmptyTable == [k \in {} |-> 0]

IntV(n)   == [tag |-> "int", i |-> n]
StrV(s)   == [tag |-> "str", s |-> s]
TableV(t) == [tag |-> "table", t |-> t]

IsTable(v) == v.tag = "table"

\* a merge that replaces a table by the incoming table instead of descending
merge_tables_shallow(base, other) ==
    [k \in DOMAIN base \cup DOMAIN other |->
        IF k \in DOMAIN other THEN other[k] ELSE base[k]]

\* a merge in which the value already present wins
RECURSIVE merge_tables_keep(_, _)
merge_tables_keep(base, other) ==
    [k \in DOMAIN base \cup DOMAIN other |->
        IF k \notin DOMAIN other THEN base[k]
        ELSE IF k \notin DOMAIN base THEN other[k]
        ELSE IF IsTable(base[k]) /\ IsTable(other[k])
             THEN TableV(merge_tables_keep(base[k].t, other[k].t))
             ELSE base[k]]

\* a merge in which an empty table on either side is replaced like a scalar
RECURSIVE merge_tables_empty_replaces(_, _)
merge_tables_empty_replaces(base, other) ==
    [k \in DOMAIN base \cup DOMAIN other |->
        IF k \notin DOMAIN other THEN base[k]
        ELSE IF /\ k \in DOMAIN base /\ IsTable(base[k]) /\ IsTable(other[k])
                /\ base[k].t # EmptyTable /\ other[k].t # EmptyTable
             THEN TableV(merge_tables_empty_replaces(base[k].t, other[k].t))
             ELSE other[k]]

\* a merge that appends the incoming array to the array already present
RECURSIVE merge_tables_concat(_, _)
merge_tables_concat(base, other) ==
    [k \in DOMAIN base \cup DOMAIN other |->
        IF k \notin DOMAIN other THEN base[k]
        ELSE IF k \in DOMAIN base /\ IsTable(base[k]) /\ IsTable(other[k])
             THEN TableV(merge_tables_concat(base[k].t, other[k].t))
        ELSE IF k \in DOMAIN base /\ base[k].tag = "array" /\ other[k].tag = "array"
             THEN [tag |-> "array", a |-> base[k].a \o other[k].a]
             ELSE other[k]]

\* ConfigBuilder::merge_tables: the accumulator after merging other into it
RECURSIVE merge_tables(_, _)
merge_tables(base, other) ==
    [k \in DOMAIN base \cup DOMAIN other |->
        IF k \notin DOMAIN other THEN base[k]
        ELSE IF k \in DOMAIN base /\ IsTable(base[k]) /\ IsTable(other[k])
             THEN TableV(merge_tables(base[k].t, other[k].t))
             ELSE other[k]]

----------------------------------------------------------------------------
(* toml::from_str::<Table> on documents of key/value lines:                  *)
(*    key(.key)* = value      value: digits, "basic string", 'literal'       *)
(* A dotted key opens or extends the tables on its path; defining a key      *)
(* twice, or descending through a value that is no table, is an error.       *)

Blank == {" ", "\t"}
\* bare keys: A-Za-z0-9_-
KeyChar == Letters \cup Digits \cup {"_", "-"}

Fail == [ok |-> FALSE]

SkipBlank(s, i) == RunEnd(s, i, Blank) + 1

\* the lines of a text, split at "\n"
RECURSIVE SplitLines(_, _)
SplitLines(s, i) ==
    IF i > Len(s) THEN << >>
    ELSE LET e == RunEndNot(s, i, {"\n"})
         IN << SubSeq(s, i, e) >> \o SplitLines(s, e + 2)

\* the dotted key starting at i: its path and the position after it
RECURSIVE ParseKey(_, _, _)
ParseKey(s, i, path) ==
    LET b == SkipBlank(s, i)
        e == RunEnd(s, b, KeyChar)
    IN IF e < b THEN Fail
       ELSE LET n == SkipBlank(s, e + 1)
                p == Append(path, SubSeq(s, b, e))
            IN IF n <= Len(s) /\ s[n] = "."
               THEN ParseKey(s, n + 1, p)
               ELSE [ok |-> TRUE, path |-> p, next |-> n]

\* the decimal value of a run of digits
RECURSIVE Decimal(_, _)
Decimal(ds, acc) ==
    IF ds = << >> THEN acc
    ELSE Decimal(Tail(ds),
                 10 * acc + (CASE Head(ds) = "1" -> 1 [] Head(ds) = "2" -> 2
                               [] Head(ds) = "3" -> 3 [] Head(ds) = "4" -> 4
                               [] Head(ds) = "5" -> 5))

\* the basic string whose opening quote is at i - 1
RECURSIVE ParseBasic(_, _, _)
ParseBasic(s, i, acc) ==
    IF i > Len(s) THEN Fail
    ELSE IF s[i] = "\"" THEN [ok |-> TRUE, v |-> StrV(acc), next |-> i + 1]
    ELSE IF s[i] = "\\"
         THEN IF i + 1 > Len(s) THEN Fail
              ELSE IF s[i + 1] \in {"\"", "\\"}
                   THEN ParseBasic(s, i + 2, Append(acc, s[i + 1]))
              ELSE IF s[i + 1] = "n" THEN ParseBasic(s, i + 2, Append(acc, "\n"))
              ELSE IF s[i + 1] = "t" THEN ParseBasic(s, i + 2, Append(acc, "\t"))
              ELSE Fail
    ELSE ParseBasic(s, i + 1, Append(acc, s[i]))

\* the value starting at i
ParseValue(s, i) ==
    IF i > Len(s) THEN Fail
    ELSE IF s[i] \in Digits
         THEN LET e == RunEnd(s, i, Digits)
              IN [ok |-> TRUE, v |-> IntV(Decimal(SubSeq(s, i, e), 0)), next |-> e + 1]
    ELSE IF s[i] = "\"" THEN ParseBasic(s, i + 1, << >>)
    ELSE IF s[i] = "'"
         THEN LET e == RunEndNot(s, i + 1, {"'"})
              IN IF e + 1 <= Len(s)
                 THEN [ok |-> TRUE, v |-> StrV(SubSeq(s, i + 1, e)), next |-> e + 2]
                 ELSE Fail
    ELSE Fail

\* one line: nothing, or a key path and its value
ParseLine(s) ==
    IF SkipBlank(s, 1) > Len(s) THEN [ok |-> TRUE, empty |-> TRUE]
    ELSE LET k == ParseKey(s, 1, << >>)
         IN IF ~k.ok \/ k.next > Len(s) \/ s[k.next] # "=" THEN Fail
            ELSE LET v == ParseValue(s, SkipBlank(s, k.next + 1))
                 IN IF ~v.ok \/ SkipBlank(s, v.next) <= Len(s) THEN Fail
                    ELSE [ok |-> TRUE, empty |-> FALSE, path |-> k.path, v |-> v.v]

\* define path = v in table t
RECURSIVE InsertPath(_, _, _)
InsertPath(t, path, v) ==
    LET k == Head(path)
    IN IF Len(path) = 1
       THEN IF k \in DOMAIN t THEN Fail
            ELSE [ok |-> TRUE, t |-> [x \in DOMAIN t \cup {k} |->
                                          IF x = k THEN v ELSE t[x]]]
       ELSE IF k \in DOMAIN t /\ ~IsTable(t[k]) THEN Fail
       ELSE LET sub == InsertPath(IF k \in DOMAIN t THEN t[k].t ELSE EmptyTable,
                                  Tail(path), v)
            IN IF ~sub.ok THEN Fail
               ELSE [ok |-> TRUE, t |-> [x \in DOMAIN t \cup {k} |->
                                            IF x = k THEN TableV(sub.t) ELSE t[x]]]

RECURSIVE ParseLines(_, _, _)
ParseLines(lines, n, t) ==
    IF n > Len(lines) THEN [ok |-> TRUE, t |-> t]
    ELSE LET l == ParseLine(lines[n])
         IN IF ~l.ok THEN Fail
            ELSE IF l.empty THEN ParseLines(lines, n + 1, t)
            ELSE LET ins == InsertPath(t, l.path, l.v)
                 IN IF ~ins.ok THEN Fail ELSE ParseLines(lines, n + 1, ins.t)

\* toml::from_str::<Table>: the table, or a toml::de::Error
from_str(s) ==
    CHOOSE r \in {ParseLines(lines, 1, EmptyTable) : lines \in {SplitLines(s, 1)}} : TRUE

----------------------------------------------------------------------------
(* State *)

VARIABLES
    env,        \* process environment: variable name -> value
    fs,         \* file system: path -> [kind, content]
    sources,    \* ConfigBuilder.sources
    pc,         \* "accumulating", "loading" (inside load's for loop), "built"
    idx,        \* load: position in the source list of the next source
    merged,     \* load: the accumulator table
    result,     \* what build() returned
    ops,        \* the loader's steps so far: << source index, step >>
    iparts,     \* Interpolator: the pieces of the value text being interpolated
    istage,     \* Interpolator: the loop that ran last
    icur,       \* Interpolator: the text (or error) after that loop
    tabs,       \* merge fold: the tables of the sources, in order
    mi,         \* merge fold: how many of them are merged
    macc,       \* merge fold: the accumulator
    mprev,      \* merge fold: the accumulator before the last merge
    heap,       \* Config: the Arc<Table> allocations, id -> [table, strong]
    handles,    \* Config: the live handles, id -> allocation it points to
    ret         \* Config: what the last call on a handle returned

vars == << env, fs, sources, pc, idx, merged, result, ops,
           iparts, istage, icur, tabs, mi, macc, mprev, heap, handles, ret >>

buildVars  == << sources, pc, idx, merged, result, ops >>
interpVars == << iparts, istage, icur >>
mergeVars  == << tabs, mi, macc, mprev >>
handleVars == << heap, handles, ret >>

----------------------------------------------------------------------------
(* Bounds and inputs *)

MaxSources == 3

PathP == << "/", "p" >>
PathQ == << "/", "q" >>
\* a path of which /p is a proper prefix
PathPQ == << "/", "p", "q" >>
VarX  == << "X" >>
VarY  == << "Y" >>

\* a.b=1 / a.c=2
TomlS1 == << "a", ".", "b", "=", "1", "\n", "a", ".", "c", "=", "2" >>
\* a.c=3 / a.d=4
TomlS2 == << "a", ".", "c", "=", "3", "\n", "a", ".", "d", "=", "4" >>
\* a=4
TomlScalar == << "a", "=", "4" >>
\* b="${X}"
TomlEnv == << "b", "=", "\"", "$", "{", "X", "}", "\"" >>
\* a.b.c=5
TomlDeep == << "a", ".", "b", ".", "c", "=", "5" >>
\* a=     (no value: not TOML)
TomlBad == << "a", "=" >>

InlineTexts == {TomlS1, TomlScalar, TomlDeep, TomlEnv, TomlBad}

NoEnv == [n \in {} |-> << >>]
NoFs  == [p \in {} |-> 0]

File(c) == [kind |-> "file", content |-> c]
\* a path that exists and cannot be read as text (a directory, bytes that are
\* not UTF-8)
Unreadable == [kind |-> "unreadable", content |-> << >>]

\* /q is never there
FilePaths == {PathP, PathQ}

BuildEnvs == {NoEnv, [n \in {VarX} |-> << "v" >>]}
\* .env, and the other file a test hands to add_dotenv_file
PathDotenv  == << ".", "e", "n", "v" >>
DotenvPaths == {PathDotenv, PathQ}
\* X=w / Y=w
DotenvText  == << "X", "=", "w", "\n", "Y", "=", "w" >>

BuildFss  == {NoFs, [p \in {PathP} |-> File(TomlS2)], [p \in {PathP} |-> Unreadable],
              [p \in {PathP, PathDotenv} |->
                  IF p = PathP THEN File(TomlBad) ELSE File(DotenvText)]}

----------------------------------------------------------------------------
(* ConfigBuilder *)

FileSource(path, required) == [kind |-> "File", path |-> path, required |-> required]
TomlString(content)        == [kind |-> "TomlString", content |-> content]

NoResult     == [status |-> "none"]
OkConfig(t)  == [status |-> "Ok", inner |-> t]
ErrConfig(e) == [status |-> "Err", error |-> e]

FileNotFound(path)    == [kind |-> "FileNotFound", path |-> path]
ReadError(io)         == [kind |-> "ReadError", source |-> io]
interpolation_error(m) == [kind |-> "InterpolationError", message |-> m]
DeserializeError      == [kind |-> "DeserializeError"]
NoSourcesConfigured   == [kind |-> "NoSourcesConfigured"]

Merged(t, steps) == [ok |-> TRUE, merged |-> t, steps |-> steps]
Failed(e, steps) == [ok |-> FALSE, error |-> e, steps |-> steps]

\* load: interpolate the text of a source, parse it and merge it
load_parsed(table, m, steps) ==
    IF ~table.ok
    THEN Failed(DeserializeError, steps \o << "interpolate", "parse" >>)
    ELSE Merged(merge_tables(m, table.t), steps \o << "interpolate", "parse", "merge" >>)

load_interpolated(interpolated, m, steps) ==
    IF ~interpolated.ok
    THEN Failed(interpolation_error(interpolated.err), steps \o << "interpolate" >>)
    ELSE CHOOSE r \in {load_parsed(table, m, steps) :
                         table \in {from_str(interpolated.text)}} : TRUE

load_text(content, m, e, f, steps) ==
    CHOOSE r \in {load_interpolated(interpolated, m, steps) :
                    interpolated \in {interpolate(content, e, f)}} : TRUE

\* a loader for which a missing optional file is as fatal as a required one
load_one_strict(src, m, e, f) ==
    IF src.kind = "File"
    THEN IF path_exists(f, src.path)
         THEN LET content == read_to_string(f, src.path)
              IN IF ~content.ok
                 THEN Failed(ReadError(content.err), << "exists", "read" >>)
                 ELSE load_text(content.text, m, e, f, << "exists", "read" >>)
         ELSE Failed(FileNotFound(src.path), << "exists" >>)
    ELSE load_text(src.content, m, e, f, << >>)

\* a loader that skips a missing file whether or not it is required
load_one_lenient(src, m, e, f) ==
    IF src.kind = "File"
    THEN IF path_exists(f, src.path)
         THEN LET content == read_to_string(f, src.path)
              IN IF ~content.ok
                 THEN Failed(ReadError(content.err), << "exists", "read" >>)
                 ELSE load_text(content.text, m, e, f, << "exists", "read" >>)
         ELSE Merged(m, << "exists" >>)
    ELSE load_text(src.content, m, e, f, << >>)

\* a loader that skips an optional file whose text does not parse
load_one_optional_parse(src, m, e, f) ==
    IF src.kind = "File"
    THEN IF path_exists(f, src.path)
         THEN LET content == read_to_string(f, src.path)
              IN IF ~content.ok
                 THEN Failed(ReadError(content.err), << "exists", "read" >>)
                 ELSE LET r == load_text(content.text, m, e, f, << "exists", "read" >>)
                      IN IF ~r.ok /\ r.error = DeserializeError /\ ~src.required
                         THEN Merged(m, r.steps)
                         ELSE r
         ELSE IF src.required
              THEN Failed(FileNotFound(src.path), << "exists" >>)
              ELSE Merged(m, << "exists" >>)
    ELSE load_text(src.content, m, e, f, << >>)

\* load: one iteration of the for loop, on source src with accumulator m
load_one(src, m, e, f) ==
    IF src.kind = "File"
    THEN IF path_exists(f, src.path)
         THEN LET content == read_to_string(f, src.path)
              IN IF ~content.ok
                 THEN Failed(ReadError(content.err), << "exists", "read" >>)
                 ELSE load_text(content.text, m, e, f, << "exists", "read" >>)
         ELSE IF src.required
              THEN Failed(FileNotFound(src.path), << "exists" >>)
              ELSE Merged(m, << "exists" >>)
    ELSE load_text(src.content, m, e, f, << >>)

\* an add_file that puts the source at the head of the list
add_file_front(path) ==
    /\ pc = "accumulating"
    /\ Len(sources) < MaxSources
    /\ sources' = << FileSource(path, FALSE) >> \o sources
    /\ UNCHANGED << env, fs, pc, idx, merged, result, ops, interpVars, mergeVars, handleVars >>

add_file(path) ==
    /\ pc = "accumulating"
    /\ Len(sources) < MaxSources
    /\ sources' = Append(sources, FileSource(path, FALSE))
    /\ UNCHANGED << env, fs, pc, idx, merged, result, ops, interpVars, mergeVars, handleVars >>

add_required_file(path) ==
    /\ pc = "accumulating"
    /\ Len(sources) < MaxSources
    /\ sources' = Append(sources, FileSource(path, TRUE))
    /\ UNCHANGED << env, fs, pc, idx, merged, result, ops, interpVars, mergeVars, handleVars >>

add_toml_str(toml) ==
    /\ pc = "accumulating"
    /\ Len(sources) < MaxSources
    /\ sources' = Append(sources, TomlString(toml))
    /\ UNCHANGED << env, fs, pc, idx, merged, result, ops, interpVars, mergeVars, handleVars >>

\* one line NAME=value of a .env file
dotenv_line(line) ==
    LET n == RunEnd(line, 1, NameChar)
    IN IF n >= 1 /\ line[1] \in NameStart /\ n + 1 <= Len(line) /\ line[n + 1] = "="
       THEN [ok |-> TRUE, name |-> SubSeq(line, 1, n), value |-> SubSeq(line, n + 2, Len(line))]
       ELSE [ok |-> FALSE]

\* a load that gives every variable of the file the file's value
RECURSIVE dotenv_load_override(_, _, _)
dotenv_load_override(e, lines, k) ==
    IF k > Len(lines) \/ ~dotenv_line(lines[k]).ok THEN e
    ELSE LET l == dotenv_line(lines[k])
         IN dotenv_load_override([x \in DOMAIN e \cup {l.name} |->
                                     IF x = l.name THEN l.value ELSE e[x]],
                                 lines, k + 1)

\* dotenv's load: each line sets its variable unless it is set already, up
\* to the first line that does not parse
RECURSIVE dotenv_load(_, _, _)
dotenv_load(e, lines, k) ==
    IF k > Len(lines) \/ ~dotenv_line(lines[k]).ok THEN e
    ELSE LET l == dotenv_line(lines[k])
         IN dotenv_load(IF l.name \in DOMAIN e THEN e
                        ELSE [x \in DOMAIN e \cup {l.name} |->
                                 IF x = l.name THEN l.value ELSE e[x]],
                        lines, k + 1)

\* dotenv::from_filename(path).ok(): nothing happens when the file is not read
from_filename(e, f, path) ==
    IF read_to_string(f, path).ok
    THEN dotenv_load(e, SplitLines(read_to_string(f, path).text, 1), 1)
    ELSE e

add_dotenv_file(path) ==
    /\ pc = "accumulating"
    /\ env' = from_filename(env, fs, path)
    /\ UNCHANGED << fs, buildVars, interpVars, mergeVars, handleVars >>

add_dotenv ==
    /\ pc = "accumulating"
    /\ env' = from_filename(env, fs, PathDotenv)
    /\ UNCHANGED << fs, buildVars, interpVars, mergeVars, handleVars >>

\* a build() that hands an empty list to load
build_unchecked ==
    /\ pc = "accumulating"
    /\ pc' = "loading"
    /\ idx' = 1
    /\ merged' = EmptyTable
    /\ UNCHANGED << env, fs, sources, result, ops, interpVars, mergeVars, handleVars >>

\* build(): no source is an error; otherwise load takes the list
build ==
    /\ pc = "accumulating"
    /\ IF sources = << >>
       THEN /\ pc' = "built"
            /\ result' = ErrConfig(NoSourcesConfigured)
            /\ UNCHANGED << idx, merged >>
       ELSE /\ pc' = "loading"
            /\ idx' = 1
            /\ merged' = EmptyTable
            /\ UNCHANGED result
    /\ UNCHANGED << env, fs, sources, ops, interpVars, mergeVars, handleVars >>

\* a loader that notes the error of a failing source and goes on to the next
load_source_keep_going ==
    /\ pc = "loading"
    /\ idx <= Len(sources)
    /\ LET r == load_one(sources[idx], merged, env, fs)
       IN /\ ops' = ops \o [n \in 1..Len(r.steps) |-> << idx, r.steps[n] >>]
          /\ idx' = idx + 1
          /\ IF r.ok
             THEN merged' = r.merged /\ UNCHANGED << pc, result >>
             ELSE /\ result' = ErrConfig(r.error)
                  /\ pc' = IF idx = Len(sources) THEN "built" ELSE pc
                  /\ UNCHANGED merged
    /\ UNCHANGED << env, fs, sources, interpVars, mergeVars, handleVars >>

\* load: the next source of the list
load_source ==
    /\ pc = "loading"
    /\ idx <= Len(sources)
    /\ LET r == load_one(sources[idx], merged, env, fs)
       IN /\ ops' = ops \o [n \in 1..Len(r.steps) |-> << idx, r.steps[n] >>]
          /\ IF r.ok
             THEN /\ merged' = r.merged
                  /\ idx' = idx + 1
                  /\ UNCHANGED << pc, result >>
             ELSE /\ pc' = "built"
                  /\ result' = ErrConfig(r.error)
                  /\ UNCHANGED << idx, merged >>
    /\ UNCHANGED << env, fs, sources, interpVars, mergeVars, handleVars >>

\* load: the list is exhausted, Ok(Config { inner: Arc::new(merged) })
load_return ==
    /\ pc = "loading"
    /\ idx > Len(sources)
    /\ pc' = "built"
    /\ result' = OkConfig(merged)
    /\ UNCHANGED << env, fs, sources, idx, merged, ops, interpVars, mergeVars, handleVars >>

InterpIdle == iparts = << >> /\ istage = "idle" /\ icur = Ok(<< >>)
MergeIdle  == tabs = << >> /\ mi = 0 /\ macc = EmptyTable /\ mprev = EmptyTable
HandleIdle == heap = << >> /\ handles = << >> /\ ret = [op |-> "none"]

Init ==
    /\ env \in BuildEnvs
    /\ fs \in BuildFss
    /\ sources = << >>
    /\ pc = "accumulating"
    /\ idx = 1
    /\ merged = EmptyTable
    /\ result = NoResult
    /\ ops = << >>
    /\ InterpIdle
    /\ MergeIdle
    /\ HandleIdle

Next ==
    \/ \E path \in FilePaths : add_file(path)
    \/ \E path \in FilePaths : add_required_file(path)
    \/ \E t \in InlineTexts : add_toml_str(t)
    \/ \E path \in DotenvPaths : add_dotenv_file(path)
    \/ add_dotenv
    \/ build
    \/ load_source
    \/ load_return

Spec == Init /\ [][Next]_vars

----------------------------------------------------------------------------
(* load on file sources, step by step, beside a process that removes files:  *)
(* the existence check of line 65 and the read of line 66 are two system     *)
(* calls, and the file system can change between them                        *)

\* the files at the start: /p alone, /p and /q
RaceFss == { [p \in {PathP} |-> File(TomlS2)],
             [p \in {PathP, PathQ} |-> IF p = PathP THEN File(TomlS2) ELSE File(TomlS1)] }

RaceInit ==
    /\ env = NoEnv
    /\ fs \in RaceFss
    /\ sources = << >>
    /\ pc = "accumulating"
    /\ idx = 1
    /\ merged = EmptyTable
    /\ result = NoResult
    /\ ops = << >>
    /\ InterpIdle
    /\ MergeIdle
    /\ HandleIdle

\* load, lines 65 and 79-87: path.exists() on the next source
path_check ==
    /\ pc = "loading"
    /\ idx <= Len(sources)
    /\ sources[idx].kind = "File"
    /\ ops' = Append(ops, << idx, "exists" >>)
    /\ IF path_exists(fs, sources[idx].path)
       THEN pc' = "reading" /\ UNCHANGED << idx, result >>
       ELSE IF sources[idx].required
            THEN /\ pc' = "built"
                 /\ result' = ErrConfig(FileNotFound(sources[idx].path))
                 /\ UNCHANGED idx
            ELSE idx' = idx + 1 /\ UNCHANGED << pc, result >>
    /\ UNCHANGED << env, fs, sources, merged, interpVars, mergeVars, handleVars >>

\* load, lines 66-77: fs::read_to_string(&path)?, then interpolate, parse, merge
read_source ==
    /\ pc = "reading"
    /\ LET content == read_to_string(fs, sources[idx].path)
           r == IF ~content.ok
                THEN Failed(ReadError(content.err), << "read" >>)
                ELSE load_text(content.text, merged, env, fs, << "read" >>)
       IN /\ ops' = ops \o [n \in 1..Len(r.steps) |-> << idx, r.steps[n] >>]
          /\ IF r.ok
             THEN /\ merged' = r.merged
                  /\ idx' = idx + 1
                  /\ pc' = "loading"
                  /\ UNCHANGED result
             ELSE /\ pc' = "built"
                  /\ result' = ErrConfig(r.error)
                  /\ UNCHANGED << idx, merged >>
    /\ UNCHANGED << env, fs, sources, interpVars, mergeVars, handleVars >>

\* another process removes a file
unlink(path) ==
    /\ path \in DOMAIN fs
    /\ fs' = [p \in DOMAIN fs \ {path} |-> fs[p]]
    /\ UNCHANGED << env, buildVars, interpVars, mergeVars, handleVars >>

RaceNext ==
    \/ \E path \in FilePaths : add_file(path)
    \/ \E path \in FilePaths : add_required_file(path)
    \/ build
    \/ path_check
    \/ read_source
    \/ load_return
    \/ \E path \in FilePaths : unlink(path)

SpecRace == RaceInit /\ [][RaceNext]_vars

----------------------------------------------------------------------------
(* merge_tables folded over the tables of a source list, as load's loop does *)

K(c) == << c >>

T1(k, v)          == [x \in {K(k)} |-> v]
T2(k1, v1, k2, v2) == [x \in {K(k1), K(k2)} |-> IF x = K(k1) THEN v1 ELSE v2]

ArrayV(a) == [tag |-> "array", a |-> a]

MergeTables ==
    { EmptyTable,
      T1("a", IntV(1)),
      T1("a", ArrayV(<< 1 >>)),
      T1("a", ArrayV(<< 2, 3 >>)),
      T1("a", TableV(EmptyTable)),
      T1("a", TableV(T1("b", IntV(1)))),
      T1("a", TableV(T1("b", ArrayV(<< 2 >>)))),
      T1("a", TableV(T2("b", IntV(1), "c", IntV(2)))),
      T1("a", TableV(T2("c", IntV(3), "d", IntV(4)))),
      T1("a", TableV(T1("b", TableV(T1("c", IntV(5)))))),
      T1("a", TableV(T1("b", TableV(T1("d", IntV(6)))))),
      T2("a", IntV(7), "d", IntV(8)) }

MergeInit ==
    /\ tabs \in UNION { [1..n -> MergeTables] : n \in 1..MaxSources }
    /\ mi = 0
    /\ macc = EmptyTable
    /\ mprev = EmptyTable
    /\ env = NoEnv
    /\ fs = NoFs
    /\ sources = << >> /\ pc = "accumulating" /\ idx = 1 /\ merged = EmptyTable
    /\ result = NoResult /\ ops = << >>
    /\ InterpIdle
    /\ HandleIdle

\* load's loop body on tables already parsed: Self::merge_tables(&mut merged, table)
merge_step ==
    /\ mi < Len(tabs)
    /\ macc' = merge_tables(macc, tabs[mi + 1])
    /\ mprev' = macc
    /\ mi' = mi + 1
    /\ UNCHANGED << tabs, env, fs, buildVars, interpVars, handleVars >>

MergeNext == merge_step

SpecMerge == MergeInit /\ [][MergeNext]_vars

----------------------------------------------------------------------------
(* Interpolator::interpolate loop by loop, on the text of a one-line inline  *)
(* source  b="<pieces>"  that is then given to add_toml_str and build        *)

MaxSegs == 3

RECURSIVE Flatten(_)
Flatten(parts) == IF parts = << >> THEN << >> ELSE Head(parts) \o Flatten(Tail(parts))

\* b="..."
Wrap(t) == << "b", "=", "\"" >> \o t \o << "\"" >>

FallbackTok(name, def) == << "$", "{" >> \o name \o << ":" >> \o def \o << "}" >>
BracedTok(name)        == << "$", "{" >> \o name \o << "}" >>
BareTok(name)          == << "$" >> \o name

PathPText == << "f", "i", "l", "e", ":", "/", "p" >>

\* the defaults of the ${NAME:default} pieces: d, nothing, ${X, file:/p
Defaults == { << "d" >>, << >>, << "$", "{", "X" >>, PathPText }

FallbackToks == { FallbackTok(VarX, << "d" >>), FallbackTok(VarX, << >>),
                  FallbackTok(VarY, << "$", "{", "X" >>),
                  FallbackTok(VarY, PathPText) }
BracedToks   == { BracedTok(VarX), BracedTok(VarY) }
BareToks     == { BareTok(VarX) }
PlainParts   == { << "d" >>, << " " >>, << "}" >> }

Segments == PlainParts \cup BareToks \cup BracedToks \cup FallbackToks

Env1(n, v)         == [x \in {n} |-> v]
Env2(n1, v1, n2, v2) == [x \in {n1, n2} |-> IF x = n1 THEN v1 ELSE v2]

InterpWorlds ==
    { [e |-> NoEnv,                                        f |-> NoFs],
      [e |-> Env1(VarX, << "v" >>),                        f |-> NoFs],
      [e |-> Env1(VarX, << >>),                            f |-> NoFs],
      [e |-> Env1(VarY, << "w" >>),                        f |-> NoFs],
      [e |-> Env1(VarX, BracedTok(VarY)),                  f |-> NoFs],
      [e |-> Env2(VarX, BracedTok(VarY), VarY, << "w" >>), f |-> NoFs],
      [e |-> Env1(VarX, PathPText),                        f |-> NoFs],
      [e |-> Env2(VarX, PathPText, VarY, << "w" >>),
       f |-> [p \in {PathP} |-> File(<< "h" >>)]],
      [e |-> Env2(VarX, PathPText, VarY, << "w" >>),
       f |-> [p \in {PathP} |-> File(BracedTok(VarY))]],
      [e |-> Env1(VarX, << "v" >>),
       f |-> [p \in {PathP} |-> File(BracedTok(VarX))]] }

\* the text given to interpolate
IContent == Wrap(Flatten(iparts))

InterpInit ==
    /\ \E w \in InterpWorlds : env = w.e /\ fs = w.f
    /\ iparts \in UNION { [1..n -> Segments] : n \in 0..MaxSegs }
    /\ istage = "input"
    /\ icur = Ok(Wrap(Flatten(iparts)))
    /\ sources = << >> /\ pc = "accumulating" /\ idx = 1 /\ merged = EmptyTable
    /\ result = NoResult /\ ops = << >>
    /\ MergeIdle
    /\ HandleIdle

\* interpolate_env_variables, lines 14-25
interpolate_env_fallback ==
    /\ istage = "input"
    /\ icur' = Ok(env_fallback_loop(icur.text, env))
    /\ istage' = "env_fallback"
    /\ UNCHANGED << env, fs, iparts, buildVars, mergeVars, handleVars >>

\* interpolate_env_variables, lines 27-42
interpolate_env_braced ==
    /\ istage = "env_fallback"
    /\ icur' = env_braced_loop(icur.text, env)
    /\ istage' = IF icur'.ok THEN "env_braced" ELSE "failed"
    /\ UNCHANGED << env, fs, iparts, buildVars, mergeVars, handleVars >>

\* interpolate_files, lines 46-60
interpolate_file_fallback ==
    /\ istage = "env_braced"
    /\ icur' = Ok(file_fallback_loop(icur.text, fs))
    /\ istage' = "file_fallback"
    /\ UNCHANGED << env, fs, iparts, buildVars, mergeVars, handleVars >>

\* a second loop of the file phase whose output is scanned for environment
\* tokens once more
interpolate_file_simple_then_env ==
    /\ istage = "file_fallback"
    /\ icur' = IF file_simple_loop(icur.text, fs).ok
               THEN interpolate_env_variables(file_simple_loop(icur.text, fs).text, env)
               ELSE file_simple_loop(icur.text, fs)
    /\ istage' = IF icur'.ok THEN "done" ELSE "failed"
    /\ UNCHANGED << env, fs, iparts, buildVars, mergeVars, handleVars >>

\* interpolate_files, lines 62-78
interpolate_file_simple ==
    /\ istage = "file_fallback"
    /\ icur' = file_simple_loop(icur.text, fs)
    /\ istage' = IF icur'.ok THEN "done" ELSE "failed"
    /\ UNCHANGED << env, fs, iparts, buildVars, mergeVars, handleVars >>

\* load on a list of sources, run to its end
RECURSIVE load_from(_, _, _, _, _)
load_from(srcs, i, m, e, f) ==
    IF i > Len(srcs) THEN OkConfig(m)
    ELSE CHOOSE x \in { IF r.ok THEN load_from(srcs, i + 1, r.merged, e, f)
                        ELSE ErrConfig(r.error) :
                          r \in { load_one(srcs[i], m, e, f) } } : TRUE

\* Config::builder().add_toml_str(text).build()
build_toml_str ==
    /\ istage \in {"done", "failed"}
    /\ pc = "accumulating"
    /\ sources' = << TomlString(IContent) >>
    /\ result' = load_from(sources', 1, EmptyTable, env, fs)
    /\ pc' = "built"
    /\ UNCHANGED << env, fs, idx, merged, ops, interpVars, mergeVars, handleVars >>

InterpNext ==
    \/ interpolate_env_fallback
    \/ interpolate_env_braced
    \/ interpolate_file_fallback
    \/ interpolate_file_simple
    \/ build_toml_str

SpecInterp == InterpInit /\ [][InterpNext]_vars

----------------------------------------------------------------------------
(* Interpolator::interpolate loop by loop, on texts that hold file: tokens *)

FileFallbackTok(path, def) == FilePrefix \o path \o << ":" >> \o def
FileSimpleTok(path)        == FilePrefix \o path

FileFallbackToks == { FileFallbackTok(PathP, << "d" >>), FileFallbackTok(PathQ, << "d" >>) }
FileSimpleToks   == { FileSimpleTok(PathP), FileSimpleTok(PathQ), FileSimpleTok(PathPQ) }
FilePlainParts   == { << "d" >>, << " " >> }

FileSegments == FilePlainParts \cup FileFallbackToks \cup FileSimpleToks

Fs1(p, c)          == [x \in {p} |-> c]
Fs2(p1, c1, p2, c2) == [x \in {p1, p2} |-> IF x = p1 THEN c1 ELSE c2]

\* contents: h, a\, h and a newline, a", file:/q
FileWorlds ==
    { NoFs,
      Fs1(PathP, File(<< "h" >>)),
      Fs1(PathP, File(<< "a", "\\" >>)),
      Fs1(PathP, File(<< "h", "\n" >>)),
      Fs1(PathP, File(<< "a", "\"" >>)),
      Fs1(PathP, Unreadable),
      Fs2(PathP, File(<< "h" >>), PathQ, File(<< "k" >>)),
      Fs2(PathP, File(FileSimpleTok(PathQ)), PathQ, File(<< "k" >>)),
      Fs1(PathP, File(FileSimpleTok(PathQ))),
      Fs2(PathP, File(<< "h" >>), PathPQ, File(<< "k" >>)) }

FilesInit ==
    /\ env = NoEnv
    /\ fs \in FileWorlds
    /\ iparts \in UNION { [1..n -> FileSegments] : n \in 0..MaxSegs }
    /\ istage = "input"
    /\ icur = Ok(Wrap(Flatten(iparts)))
    /\ sources = << >> /\ pc = "accumulating" /\ idx = 1 /\ merged = EmptyTable
    /\ result = NoResult /\ ops = << >>
    /\ MergeIdle
    /\ HandleIdle

FilesNext ==
    \/ interpolate_env_fallback
    \/ interpolate_env_braced
    \/ interpolate_file_fallback
    \/ interpolate_file_simple

SpecFiles == FilesInit /\ [][FilesNext]_vars

----------------------------------------------------------------------------
(* Config: the handle build() returns, its clones and its lookups *)

MaxHandles == 3

\* section types: the key of the section, the integer fields of the struct
\* and the least value its validation accepts
ItemA == [key |-> << "a" >>, fields |-> {<< "b" >>}, min |-> 2]
ItemC == [key |-> << "a" >>, fields |-> {<< "c" >>}, min |-> 0]
ItemZ == [key |-> << "z" >>, fields |-> {}, min |-> 0]
ItemTypes == {ItemA, ItemC, ItemZ}

None    == [some |-> FALSE]
Some(x) == [some |-> TRUE, value |-> x]

\* T::deserialize(value): a struct of integer fields out of a table that has them
deserialize(T, v) ==
    IF IsTable(v) /\ \A f \in T.fields : f \in DOMAIN v.t /\ v.t[f].tag = "int"
    THEN [ok |-> TRUE, value |-> [f \in T.fields |-> v.t[f].i]]
    ELSE [ok |-> FALSE, error |-> DeserializeError]

\* Validate::validate
validate(T, x) == \A f \in T.fields : x[f] >= T.min

default(T) == [f \in T.fields |-> 0]

\* a get that lets the deserializer's failure out as a panic
Config_get_unwrap(t, T) ==
    IF T.key \notin DOMAIN t THEN None
    ELSE IF deserialize(T, t[T.key]).ok THEN Some(deserialize(T, t[T.key]).value)
    ELSE [some |-> FALSE, panic |-> TRUE]

\* Config::get on the table of the handle
Config_get(t, T) ==
    IF T.key \notin DOMAIN t THEN None
    ELSE IF deserialize(T, t[T.key]).ok THEN Some(deserialize(T, t[T.key]).value)
    ELSE None

KeyNotFound(key)     == [kind |-> "KeyNotFound", key |-> key]
ValidationError(key) == [kind |-> "ValidationError", key |-> key]

\* Config::get_validated on the table of the handle
Config_get_validated(t, T) ==
    IF T.key \notin DOMAIN t THEN [ok |-> FALSE, error |-> KeyNotFound(T.key)]
    ELSE IF ~deserialize(T, t[T.key]).ok THEN deserialize(T, t[T.key])
    ELSE IF ~validate(T, deserialize(T, t[T.key]).value)
         THEN [ok |-> FALSE, error |-> ValidationError(T.key)]
    ELSE deserialize(T, t[T.key])

TableOf(h) == heap[handles[h]].table

FreeIds(used) == (1..MaxHandles) \ used
NewId(used)   == CHOOSE n \in FreeIds(used) : \A m \in FreeIds(used) : n <= m

\* a clone that copies the table into an allocation of its own
clone_deep(h) ==
    /\ h \in DOMAIN handles
    /\ FreeIds(DOMAIN handles) # {}
    /\ LET n == NewId(DOMAIN handles)
           a == NewId(DOMAIN heap)
       IN /\ handles' = [x \in DOMAIN handles \cup {n} |->
                            IF x = n THEN a ELSE handles[x]]
          /\ heap' = [x \in DOMAIN heap \cup {a} |->
                            IF x = a THEN [table |-> TableOf(h), strong |-> 1]
                            ELSE heap[x]]
          /\ ret' = [op |-> "clone", handle |-> n]
    /\ UNCHANGED << env, fs, buildVars, interpVars, mergeVars >>

\* #[derive(Clone)] on Config: Arc::clone of inner
clone(h) ==
    /\ h \in DOMAIN handles
    /\ FreeIds(DOMAIN handles) # {}
    /\ LET n == NewId(DOMAIN handles)
       IN /\ handles' = [x \in DOMAIN handles \cup {n} |->
                            IF x = n THEN handles[h] ELSE handles[x]]
          /\ heap' = [heap EXCEPT ![handles[h]].strong = @ + 1]
          /\ ret' = [op |-> "clone", handle |-> n]
    /\ UNCHANGED << env, fs, buildVars, interpVars, mergeVars >>

\* a handle goes out of scope: Arc's drop
drop(h) ==
    /\ h \in DOMAIN handles
    /\ handles' = [x \in DOMAIN handles \ {h} |-> handles[x]]
    /\ heap' = IF heap[handles[h]].strong = 1
               THEN [x \in DOMAIN heap \ {handles[h]} |-> heap[x]]
               ELSE [heap EXCEPT ![handles[h]].strong = @ - 1]
    /\ ret' = [op |-> "drop"]
    /\ UNCHANGED << env, fs, buildVars, interpVars, mergeVars >>

get(h, T) ==
    /\ h \in DOMAIN handles
    /\ ret' = [op |-> "get", handle |-> h, type |-> T, value |-> Config_get(TableOf(h), T)]
    /\ UNCHANGED << env, fs, heap, handles, buildVars, interpVars, mergeVars >>

get_validated(h, T) ==
    /\ h \in DOMAIN handles
    /\ ret' = [op |-> "get_validated", handle |-> h, type |-> T,
               value |-> Config_get_validated(TableOf(h), T)]
    /\ UNCHANGED << env, fs, heap, handles, buildVars, interpVars, mergeVars >>

\* expect: the value, or a panic when get has none
expect(h, T) ==
    /\ h \in DOMAIN handles
    /\ ret' = [op |-> "expect", handle |-> h, type |-> T,
               value |-> IF Config_get(TableOf(h), T).some
                         THEN [panic |-> FALSE, value |-> Config_get(TableOf(h), T).value]
                         ELSE [panic |-> TRUE]]
    /\ UNCHANGED << env, fs, heap, handles, buildVars, interpVars, mergeVars >>

get_or_default(h, T) ==
    /\ h \in DOMAIN handles
    /\ ret' = [op |-> "get_or_default", handle |-> h, type |-> T,
               value |-> IF Config_get(TableOf(h), T).some
                         THEN Config_get(TableOf(h), T).value
                         ELSE default(T)]
    /\ UNCHANGED << env, fs, heap, handles, buildVars, interpVars, mergeVars >>

\* the tables build() has returned: of a.b=1 a.c=2, of a=4, of a.b.c=5, of no
\* contribution at all
HandleTables == { from_str(TomlS1).t, from_str(TomlScalar).t, from_str(TomlDeep).t,
                  EmptyTable }

\* build() has returned Ok(Config { inner: Arc::new(merged) })
HandleInit ==
    /\ \E t \in HandleTables :
         /\ heap = [a \in {1} |-> [table |-> t, strong |-> 1]]
         /\ result = OkConfig(t)
         /\ merged = t
    /\ handles = [h \in {1} |-> 1]
    /\ ret = [op |-> "none"]
    /\ env = NoEnv /\ fs = NoFs
    /\ sources = << >> /\ pc = "built" /\ idx = 1 /\ ops = << >>
    /\ InterpIdle
    /\ MergeIdle

HandleNext ==
    \/ \E h \in 1..MaxHandles : clone(h)
    \/ \E h \in 1..MaxHandles : drop(h)
    \/ \E h \in 1..MaxHandles, T \in ItemTypes : get(h, T)
    \/ \E h \in 1..MaxHandles, T \in ItemTypes : get_validated(h, T)
    \/ \E h \in 1..MaxHandles, T \in ItemTypes : expect(h, T)
    \/ \E h \in 1..MaxHandles, T \in ItemTypes : get_or_default(h, T)

SpecHandle == HandleInit /\ [][HandleNext]_vars

----------------------------------------------------------------------------
(* Vocabulary of the properties *)

KeyNames == {K("a"), K("b"), K("c"), K("d")}
KeyPaths == UNION { [1..n -> KeyNames] : n \in 1..3 }

Undefined == [def |-> FALSE]
Defined(v) == [def |-> TRUE, v |-> v]

\* the value at key path p of table t
RECURSIVE Lookup(_, _)
Lookup(t, p) ==
    IF Head(p) \notin DOMAIN t THEN Undefined
    ELSE IF Len(p) = 1 THEN Defined(t[Head(p)])
    ELSE IF IsTable(t[Head(p)]) THEN Lookup(t[Head(p)].t, Tail(p))
    ELSE Undefined

Defines(t, p)      == Lookup(t, p).def
DefinesLeaf(t, p)  == Lookup(t, p).def /\ ~IsTable(Lookup(t, p).v)
DefinesTable(t, p) == Lookup(t, p).def /\ IsTable(Lookup(t, p).v)

ProperPrefixes(p) == { SubSeq(p, 1, n) : n \in 1..(Len(p) - 1) }

\* table t holds a value that is no table at a proper prefix of p
BlocksPath(t, p) == \E q \in ProperPrefixes(p) : DefinesLeaf(t, q)

\* merge_tables folded pairwise, left to right, from the empty table
RECURSIVE FoldMerge(_, _)
FoldMerge(ts, n) ==
    IF n = 0 THEN EmptyTable ELSE merge_tables(FoldMerge(ts, n - 1), ts[n])

\* what a source is, read off the file system and the environment
SrcMissing(src, f) == src.kind = "File" /\ ~path_exists(f, src.path)

SrcParsed(src, e, f) ==
    IF src.kind = "File" /\ ~read_to_string(f, src.path).ok THEN Fail
    ELSE CHOOSE r \in { IF i.ok THEN from_str(i.text) ELSE Fail :
                          i \in { interpolate(IF src.kind = "File"
                                              THEN read_to_string(f, src.path).text
                                              ELSE src.content, e, f) } } : TRUE

SrcFails(src, e, f) ==
    IF SrcMissing(src, f) THEN src.required ELSE ~SrcParsed(src, e, f).ok

\* the table a source contributes: nothing for a skipped file
SrcTable(src, e, f) ==
    IF SrcMissing(src, f) \/ ~SrcParsed(src, e, f).ok
    THEN EmptyTable ELSE SrcParsed(src, e, f).t

Contributions == [i \in 1..Len(sources) |-> SrcTable(sources[i], env, fs)]

BuiltOk  == pc = "built" /\ result.status = "Ok"
BuiltErr == pc = "built" /\ result.status = "Err"

----------------------------------------------------------------------------
(* C1..C7: merge order, all-or-nothing build, missing files, empty builder *)

\* every source that has p has a non-table there, and no source has a
\* non-table above p
LeafInAll(ts, p) ==
    /\ \E i \in 1..Len(ts) : Defines(ts[i], p)
    /\ \A i \in 1..Len(ts) :
          /\ Defines(ts[i], p) => DefinesLeaf(ts[i], p)
          /\ ~BlocksPath(ts[i], p)

LastDefiner(ts, p) ==
    CHOOSE i \in 1..Len(ts) :
        Defines(ts[i], p) /\ \A j \in (i + 1)..Len(ts) : ~Defines(ts[j], p)

MergedKeyByKey(b, o, r) ==
    /\ DOMAIN r = DOMAIN b \cup DOMAIN o
    /\ \A k \in DOMAIN b \ DOMAIN o : r[k] = b[k]
    /\ \A k \in DOMAIN o \ DOMAIN b : r[k] = o[k]
    /\ \A k \in DOMAIN b \cap DOMAIN o :
          (~IsTable(b[k]) /\ ~IsTable(o[k])) => r[k] = o[k]

\* C2: when the accumulator and the incoming table both hold a table at a key
\* path, the merge holds a table there with every key of either side, the
\* incoming value where both hold non-tables and the accumulator's value where
\* only it has the key; a.b=1, a.c=2 then a.c=3, a.d=4 gives a.b=1, a.c=3, a.d=4.
C2_DeepMergeKeepsSiblings ==
    mi >= 1 =>
        /\ \A p \in KeyPaths :
              (DefinesTable(mprev, p) /\ DefinesTable(tabs[mi], p)) =>
                  /\ DefinesTable(macc, p)
                  /\ MergedKeyByKey(Lookup(mprev, p).v.t, Lookup(tabs[mi], p).v.t,
                                    Lookup(macc, p).v.t)
        /\ (/\ mprev = T1("a", TableV(T2("b", IntV(1), "c", IntV(2))))
            /\ tabs[mi] = T1("a", TableV(T2("c", IntV(3), "d", IntV(4)))))
           => macc = T1("a", TableV([k \in {K("b"), K("c"), K("d")} |->
                                        IF k = K("b") THEN IntV(1)
                                        ELSE IF k = K("c") THEN IntV(3) ELSE IntV(4)]))

\* a.b=1, a.c=2 merged with a.c=3, a.d=4
C2_Witness ==
    /\ mi = 2
    /\ mprev = T1("a", TableV(T2("b", IntV(1), "c", IntV(2))))
    /\ tabs[2] = T1("a", TableV(T2("c", IntV(3), "d", IntV(4))))
    /\ Lookup(macc, << K("a"), K("b") >>) = Defined(IntV(1))

\* source i's value at p is in the accumulator: the value itself, or a table
\* where the source has a table
Kept(t, p, acc) ==
    IF DefinesLeaf(t, p) THEN Lookup(acc, p) = Lookup(t, p) ELSE DefinesTable(acc, p)

\* C3 as stated: every key path defined by one of the merged sources and not
\* redefined at that path by a later one is in the accumulator with that
\* source's value.
C3_UnionOfSources ==
    \A i \in 1..mi : \A p \in KeyPaths :
        (Defines(tabs[i], p) /\ \A j \in (i + 1)..mi : ~Defines(tabs[j], p))
            => Kept(tabs[i], p, macc)

\* C3, amended: every key path defined by one of the merged sources, not
\* redefined at that path by a later one and with no later source holding a
\* non-table value at an ancestor of the path, is in the accumulator with
\* that source's value.
C3_UnionUnlessAncestorReplaced ==
    \A i \in 1..mi : \A p \in KeyPaths :
        (/\ Defines(tabs[i], p)
         /\ \A j \in (i + 1)..mi : ~Defines(tabs[j], p) /\ ~BlocksPath(tabs[j], p))
            => Kept(tabs[i], p, macc)

\* three sources merged; a value of the first survives below a table that the
\* two later ones also define
C3_Witness ==
    /\ mi = 3 /\ Len(tabs) = 3
    /\ \E p \in KeyPaths :
          /\ Len(p) >= 2
          /\ DefinesLeaf(tabs[1], p)
          /\ ~Defines(tabs[2], p) /\ ~Defines(tabs[3], p)
          /\ Defines(tabs[2], SubSeq(p, 1, 1)) /\ Defines(tabs[3], SubSeq(p, 1, 1))
          /\ Lookup(macc, p) = Lookup(tabs[1], p)
          /\ macc # tabs[1]

SourceErrors == {"FileNotFound", "ReadError", "InterpolationError", "DeserializeError"}

\* C4: build() ends with Ok and a handle holding the merge of the sources'
\* tables, none of the sources having failed, or with Err and one ConfigError
\* and no table; whenever a source fails (required file missing, read error,
\* interpolation failure, parse failure) it ends with Err.
C4_AllOrNothing ==
    pc = "built" =>
        /\ result.status \in {"Ok", "Err"}
        /\ result.status = "Ok" =>
              /\ DOMAIN result = {"status", "inner"}
              /\ \A i \in 1..Len(sources) : ~SrcFails(sources[i], env, fs)
              /\ result.inner = FoldMerge(Contributions, Len(sources))
        /\ result.status = "Err" =>
              /\ DOMAIN result = {"status", "error"}
              /\ result.error.kind \in SourceErrors \cup {"NoSourcesConfigured"}
        /\ (\E i \in 1..Len(sources) : SrcFails(sources[i], env, fs)) =>
              /\ result.status = "Err"
              /\ result.error.kind \in SourceErrors

\* a source failed after an earlier one was merged into the accumulator
C4_Witness ==
    /\ BuiltErr
    /\ idx > 1
    /\ merged # EmptyTable
    /\ SrcFails(sources[idx], env, fs)

IsMissingOptional(src) == src.kind = "File" /\ ~src.required /\ SrcMissing(src, fs)
IsGoodInline(src)      == src.kind = "TomlString" /\ ~SrcFails(src, env, fs)

\* C5: a list made of one inline source that interpolates and parses, and of
\* optional files whose paths do not exist (at least one, before or after
\* it), builds into a handle holding exactly the inline source's table.
C5_MissingOptionalIsSilent ==
    (/\ pc = "built"
     /\ \E i \in 1..Len(sources) : IsMissingOptional(sources[i])
     /\ \E i \in 1..Len(sources) :
           /\ IsGoodInline(sources[i])
           /\ \A j \in 1..Len(sources) \ {i} : IsMissingOptional(sources[j]))
    => \E i \in 1..Len(sources) :
           /\ sources[i].kind = "TomlString"
           /\ result = OkConfig(SrcParsed(sources[i], env, fs).t)

\* a missing optional file before and after the inline source, built
C5_Witness ==
    /\ BuiltOk
    /\ Len(sources) = 3
    /\ IsMissingOptional(sources[1])
    /\ IsGoodInline(sources[2])
    /\ IsMissingOptional(sources[3])
    /\ result.inner # EmptyTable

C7_NoSources ==
    (pc # "accumulating" /\ sources = << >>) =>
        /\ pc = "built"
        /\ result = ErrConfig(NoSourcesConfigured)
        /\ ops = << >>

C7_Witness == pc = "built" /\ sources = << >> /\ result.status = "Err"

----------------------------------------------------------------------------
(* C8..C10: the environment tokens ${NAME:default}, ${NAME} and $NAME *)

VarNames == { VarX, VarY }

IsFallbackTok(part) == \E n \in VarNames, d \in Defaults : part = FallbackTok(n, d)
IsBracedTok(part)   == \E n \in VarNames : part = BracedTok(n)

\* the name between the braces of an environment token
NameOf(part) == CHOOSE n \in VarNames :
                    \/ part = BracedTok(n)
                    \/ \E d \in Defaults : part = FallbackTok(n, d)
DefaultOf(part) == CHOOSE d \in Defaults : part = FallbackTok(NameOf(part), d)

\* a piece after the ${NAME:default} tokens are resolved
AfterFallback(part) ==
    IF IsFallbackTok(part)
    THEN IF NameOf(part) \in DOMAIN env THEN env[NameOf(part)] ELSE DefaultOf(part)
    ELSE part

\* a piece after the ${NAME} tokens of set variables are resolved
AfterBraced(part) ==
    IF IsBracedTok(part) /\ NameOf(part) \in DOMAIN env THEN env[NameOf(part)] ELSE part

ResolvedFallback == [k \in 1..Len(iparts) |-> AfterFallback(iparts[k])]
ResolvedBraced   == [k \in 1..Len(iparts) |-> AfterBraced(iparts[k])]

\* C8, the first loop alone: it turns every ${NAME:default} of the text into
\* the value of NAME when NAME is set and into the default (the empty default
\* too) when it is not, leaves the rest of the text as it is, and has no error
\* outcome
C8_FallbackResolves ==
    istage = "env_fallback" =>
        icur = Ok(Wrap(Flatten(ResolvedFallback)))

\* one token whose variable is set, one whose variable is unset, and an
\* empty default in use
C8_Witness ==
    /\ istage = "env_fallback"
    /\ \E k, j \in 1..Len(iparts) :
         /\ IsFallbackTok(iparts[k]) /\ NameOf(iparts[k]) \in DOMAIN env
         /\ iparts[j] = FallbackTok(VarX, << >>) /\ VarX \notin DOMAIN env
         /\ icur.text # IContent

\* the environment phase has returned
EnvPhaseOver ==
    \/ istage = "env_braced"
    \/ istage = "failed" /\ icur.err.kind = "env_not_found"

\* every other piece is plain text, a bare $NAME or the same token again
OnlyToken(k) ==
    \A j \in 1..Len(iparts) :
        iparts[j] \in PlainParts \cup BareToks \cup {iparts[k]}

\* C8: for a text whose one token is ${X:default}, the environment phase
\* returns the text with the value of X in place of the token when X is set
\* and with the default in its place when X is unset, and never an error
C8_FallbackNeverFails ==
    \A k \in 1..Len(iparts) :
        (EnvPhaseOver /\ IsFallbackTok(iparts[k]) /\ OnlyToken(k))
        => icur = Ok(Wrap(Flatten(ResolvedFallback)))

UnsetBraced == { k \in 1..Len(iparts) :
                   IsBracedTok(iparts[k]) /\ NameOf(iparts[k]) \notin DOMAIN env }
AfterEnv == istage \in {"env_braced", "file_fallback", "done", "failed"}

\* C9, for a text whose ${NAME} tokens all name one variable: with NAME unset
\* interpolation fails with an error naming NAME, there is no output text, and
\* build returns InterpolationError and no handle; with NAME set each token is
\* replaced by exactly the value of NAME. (With more tokens an unset ${NAME}
\* still fails the build, naming an unset variable.)
C9_BracedRequired ==
    /\ (AfterEnv /\ UnsetBraced # {}) =>
          /\ istage = "failed"
          /\ icur = Err([kind |-> "env_not_found", name |-> icur.err.name])
          /\ icur.err.name \notin DOMAIN env
          /\ \A k \in UnsetBraced : OnlyToken(k) => icur.err.name = NameOf(iparts[k])
          /\ pc = "built" => result = ErrConfig(interpolation_error(icur.err))
    /\ \A k \in 1..Len(iparts) :
          (/\ istage = "env_braced"
           /\ IsBracedTok(iparts[k]) /\ NameOf(iparts[k]) \in DOMAIN env
           /\ OnlyToken(k))
          => icur = Ok(Wrap(Flatten(ResolvedBraced)))

\* every piece is plain text, a bare $NAME or a ${NAME}
NoFallbackToks ==
    \A j \in 1..Len(iparts) : iparts[j] \in PlainParts \cup BareToks \cup BracedToks

\* C9: for a text containing ${NAME} tokens (and no ${NAME:default}), an unset
\* NAME makes interpolation fail with an error naming an unset variable and
\* build return InterpolationError; when every NAME is set, each token is
\* replaced by exactly the value of its variable
C9_BracedStrictExact ==
    /\ (AfterEnv /\ UnsetBraced # {}) =>
          /\ istage = "failed"
          /\ icur = Err([kind |-> "env_not_found", name |-> icur.err.name])
          /\ icur.err.name \notin DOMAIN env
          /\ pc = "built" => result = ErrConfig(interpolation_error(icur.err))
    /\ (/\ istage = "env_braced"
        /\ NoFallbackToks
        /\ \E k \in 1..Len(iparts) : IsBracedTok(iparts[k]))
       => icur = Ok(Wrap(Flatten(ResolvedBraced)))

\* build has returned the error of a text whose one ${X} names an unset X
C9_Witness ==
    /\ pc = "built" /\ result.status = "Err"
    /\ \E k \in UnsetBraced : OnlyToken(k) /\ icur.err.name = VarX

\* every piece is plain text or a bare $NAME, and there is a bare $NAME
OnlyBare ==
    /\ \A k \in 1..Len(iparts) : iparts[k] \in PlainParts \cup BareToks
    /\ \E k \in 1..Len(iparts) : iparts[k] \in BareToks

\* C10: a bare $NAME is no token: set or unset, every loop leaves the text as
\* it is, none of them fails, and build returns the value with $NAME in it
C10_BareIsLiteral ==
    OnlyBare =>
        /\ istage # "failed"
        /\ icur = Ok(IContent)
        /\ pc = "built" =>
              result = OkConfig([k \in {<< "b" >>} |-> StrV(Flatten(iparts))])

C10_Witness ==
    /\ OnlyBare /\ pc = "built" /\ istage = "done"
    /\ VarX \in DOMAIN env /\ env[VarX] = << "v" >>
    /\ Contains(icur.text, BareTok(VarX))

----------------------------------------------------------------------------
(* C11, C12: the file tokens file:PATH:DEFAULT and file:PATH *)

IsFileFallbackTok(part) == part \in FileFallbackToks
IsFileSimpleTok(part)   == part \in FileSimpleToks
IsFileTok(part)         == IsFileFallbackTok(part) \/ IsFileSimpleTok(part)

\* the path of a file token
PathOf(part) == CHOOSE p \in FilePaths \cup {PathPQ} :
                    part = FileSimpleTok(p) \/ part = FileFallbackTok(p, << "d" >>)

Readable(path) == read_to_string(fs, path).ok

\* every file token ends where its piece ends: a blank or the end follows
Separated ==
    \A k \in 1..Len(iparts) :
        IsFileTok(iparts[k]) => (k = Len(iparts) \/ iparts[k + 1] = << " " >>)

\* a piece after the file:PATH:DEFAULT tokens are resolved, as the code escapes
AfterFileFallback(part) ==
    IF IsFileFallbackTok(part)
    THEN IF Readable(PathOf(part))
         THEN escape_toml_string(fs[PathOf(part)].content)
         ELSE << "d" >>
    ELSE part

\* the same with the content escaped as for a basic (double-quoted) string
AfterFileFallbackBasic(part) ==
    IF IsFileFallbackTok(part)
    THEN IF Readable(PathOf(part))
         THEN escape_basic(fs[PathOf(part)].content)
         ELSE << "d" >>
    ELSE part

ResolvedFileFallback      == [k \in 1..Len(iparts) |-> AfterFileFallback(iparts[k])]
ResolvedFileFallbackBasic == [k \in 1..Len(iparts) |-> AfterFileFallbackBasic(iparts[k])]

FilePhaseOver == istage \in {"done", "failed"}

\* the file tokens of the text are file:PATH:DEFAULT tokens, and there is one
OnlyFileFallback ==
    /\ \A k \in 1..Len(iparts) : ~ IsFileSimpleTok(iparts[k])
    /\ \E k \in 1..Len(iparts) : IsFileFallbackTok(iparts[k])

\* C11, the first loop alone: it turns every file:PATH:DEFAULT into DEFAULT
\* when PATH cannot be read and into escape_toml_string of the content when it
\* can, leaves the rest of the text as it is, and has no error outcome
C11_FileFallbackLoop ==
    (Separated /\ istage = "file_fallback") =>
        icur = Ok(Wrap(Flatten(ResolvedFileFallback)))

\* C11: for a text whose file tokens are file:PATH:DEFAULT tokens, the file
\* phase returns, and never an error, the text with DEFAULT in place of each
\* token whose file cannot be read and with the content of the file, escaped
\* as for a TOML double-quoted string, in place of each token whose file can
C11_FileFallbackEscaped ==
    (Separated /\ OnlyFileFallback /\ FilePhaseOver) =>
        icur = Ok(Wrap(Flatten(ResolvedFileFallbackBasic)))

\* one token whose file is read and holds a backslash, one whose file is missing
C11_Witness ==
    /\ Separated /\ OnlyFileFallback /\ istage = "file_fallback"
    /\ \E k, j \in 1..Len(iparts) :
         /\ iparts[k] = FileFallbackTok(PathP, << "d" >>) /\ Readable(PathP)
         /\ HasChar(fs[PathP].content, "\\")
         /\ iparts[j] = FileFallbackTok(PathQ, << "d" >>) /\ ~ Readable(PathQ)

\* the file tokens of the text are file:PATH tokens, and there is one
OnlyFileSimple ==
    /\ \A k \in 1..Len(iparts) : ~ IsFileFallbackTok(iparts[k])
    /\ \E k \in 1..Len(iparts) : IsFileSimpleTok(iparts[k])

\* the file tokens of the text name one path
OnePath ==
    \A k, j \in 1..Len(iparts) :
        (IsFileTok(iparts[k]) /\ IsFileTok(iparts[j])) => PathOf(iparts[k]) = PathOf(iparts[j])

UnreadableSimple == { k \in 1..Len(iparts) :
                        IsFileSimpleTok(iparts[k]) /\ ~ Readable(PathOf(iparts[k])) }

\* the error of the first file:PATH token whose file cannot be read
FirstReadError ==
    LET k == CHOOSE k \in UnreadableSimple : \A j \in UnreadableSimple : k <= j
    IN  Err([kind |-> "file_read", path |-> PathOf(iparts[k]),
             io |-> read_to_string(fs, PathOf(iparts[k])).err])

AfterFileSimple(part) ==
    IF IsFileSimpleTok(part) THEN escape_toml_string(fs[PathOf(part)].content) ELSE part

AfterFileSimpleBasic(part) ==
    IF IsFileSimpleTok(part) THEN escape_basic(fs[PathOf(part)].content) ELSE part

ResolvedFileSimple      == [k \in 1..Len(iparts) |-> AfterFileSimple(iparts[k])]
ResolvedFileSimpleBasic == [k \in 1..Len(iparts) |-> AfterFileSimpleBasic(iparts[k])]

\* C12, as the code escapes and for tokens that name one path: a file:PATH
\* whose file cannot be read makes interpolation fail with an error holding
\* PATH and the I/O error, and no text; otherwise each token is replaced by
\* escape_toml_string of the content of its file
C12_FileSimpleLoop ==
    (Separated /\ OnlyFileSimple /\ FilePhaseOver) =>
        /\ UnreadableSimple # {} => icur = FirstReadError
        /\ (UnreadableSimple = {} /\ OnePath) =>
              icur = Ok(Wrap(Flatten(ResolvedFileSimple)))

\* C12: for a text whose file tokens are file:PATH tokens, a PATH that cannot
\* be read makes interpolation fail with an error holding PATH and the I/O
\* error, and no text; when every PATH can be read, each token is replaced by
\* the content of its file escaped as for a TOML double-quoted string
C12_FileSimpleEscaped ==
    (Separated /\ OnlyFileSimple /\ FilePhaseOver) =>
        /\ UnreadableSimple # {} => icur = FirstReadError
        /\ UnreadableSimple = {} =>
              icur = Ok(Wrap(Flatten(ResolvedFileSimpleBasic)))

\* a text whose file:/p is read, the file holding a newline
C12_Witness ==
    /\ Separated /\ OnlyFileSimple /\ istage = "done" /\ OnePath
    /\ Readable(PathP) /\ HasChar(fs[PathP].content, "\n")

----------------------------------------------------------------------------
(* C13: malformed text *)

\* the text of a source is read and interpolated, and is not well-formed TOML
Malformed(src) ==
    /\ ~SrcMissing(src, fs)
    /\ src.kind = "File" => read_to_string(fs, src.path).ok
    /\ LET text == IF src.kind = "File" THEN read_to_string(fs, src.path).text
                   ELSE src.content
       IN CHOOSE b \in { i.ok /\ ~from_str(i.text).ok :
                           i \in { interpolate(text, env, fs) } } : TRUE

\* C13: when the first source that fails is one whose interpolated text is not
\* well-formed TOML, build() returns Err(DeserializeError), be the source an
\* inline text, a required file or an optional file that exists
C13_MalformedIsFatal ==
    pc = "built" =>
        \A i \in 1..Len(sources) :
            (/\ Malformed(sources[i])
             /\ \A j \in 1..(i - 1) : ~SrcFails(sources[j], env, fs))
            => result = ErrConfig(DeserializeError)

\* an optional file that exists and is malformed, after a source that was merged
C13_Witness ==
    /\ BuiltErr
    /\ Len(sources) = 2
    /\ ~SrcFails(sources[1], env, fs) /\ ~SrcMissing(sources[1], fs)
    /\ sources[2].kind = "File" /\ ~sources[2].required
    /\ Malformed(sources[2])

----------------------------------------------------------------------------
(* C14..C16: the handle is read-only, the environment is not written, get *)

\* C14: whatever calls were made on the handle and on its clones, there is
\* one allocation, it holds the table build() returned, every live handle
\* points to it, and its count is the number of live handles
C14_HandleReadOnly ==
    handles # << >> =>
        /\ Cardinality(DOMAIN heap) = 1
        /\ \A h \in DOMAIN handles :
              /\ handles[h] \in DOMAIN heap
              /\ heap[handles[h]].table = result.inner
              /\ heap[handles[h]].strong = Cardinality(DOMAIN handles)

\* three handles alive, and the last call, an expect on a clone, panicked
C14_Witness ==
    /\ Cardinality(DOMAIN handles) = 3
    /\ ret.op = "expect" /\ ret.handle # 1 /\ ret.value.panic
    /\ result.inner # EmptyTable

\* C16: get returns None when the key of the section type is not a top-level
\* key of the table (or the section does not deserialize), Some(value) with
\* the deserialized section otherwise; it returns no error and does not panic
C16_GetIsTotal ==
    ret.op = "get" =>
        LET t == result.inner
            T == ret.type
        IN /\ DOMAIN ret.value \subseteq {"some", "value"}
           /\ T.key \notin DOMAIN t => ret.value = None
           /\ (T.key \in DOMAIN t /\ deserialize(T, t[T.key]).ok)
                 => ret.value = Some(deserialize(T, t[T.key]).value)
           /\ (T.key \in DOMAIN t /\ ~deserialize(T, t[T.key]).ok) => ret.value = None

\* a get of a section that is there and does not deserialize returned None
C16_Witness ==
    /\ ret.op = "get"
    /\ ret.type.key \in DOMAIN result.inner
    /\ ~deserialize(ret.type, result.inner[ret.type.key]).ok
    /\ ret.value = None

RECURSIVE Sandwiched(_, _, _)
Sandwiched(A, B, C) ==
    \E k \in DOMAIN A \cap DOMAIN B \cap DOMAIN C :
        /\ IsTable(A[k]) /\ IsTable(C[k])
        /\ \/ ~IsTable(B[k])
           \/ IsTable(B[k]) /\ Sandwiched(A[k].t, B[k].t, C[k].t)

\* the other grouping of the merge of three tables: C into B, the result into A
RightGrouped == merge_tables(tabs[1], merge_tables(tabs[2], tabs[3]))

\* C17: the accumulator after merging three tables left to right is the table
\* obtained by merging the third into the second and that result into the first
C17_MergeAssociative == mi = 3 => macc = RightGrouped

\* C17, amended: the two groupings agree whenever no key path holds a table in
\* the first and the third table and a value that is no table in the second
C17_MergeAssociativeUnlessSandwiched ==
    (mi = 3 /\ ~Sandwiched(tabs[1], tabs[2], tabs[3])) => macc = RightGrouped

\* three tables with a table at the same key, none empty, merged into one that
\* is none of the three
C17_Witness ==
    /\ mi = 3
    /\ ~Sandwiched(tabs[1], tabs[2], tabs[3])
    /\ \A i \in 1..3 : /\ K("a") \in DOMAIN tabs[i] /\ IsTable(tabs[i][K("a")])
                       /\ tabs[i][K("a")].t # EmptyTable
                       /\ macc # tabs[i]
    /\ macc = RightGrouped

\* the table merged by the last merge_step
Incoming == tabs[mi]

\* C18: after a merge, every key path of the incoming table that the
\* accumulator lacked, or at which one of the two values is not a table, holds
\* exactly the incoming value
C18_ReplacedWholesale ==
    mi >= 1 =>
        \A p \in KeyPaths :
            (/\ Defines(Incoming, p)
             /\ \/ ~Defines(mprev, p)
                \/ ~IsTable(Lookup(mprev, p).v)
                \/ ~IsTable(Lookup(Incoming, p).v))
            => Lookup(macc, p) = Lookup(Incoming, p)

\* an array met another array and was replaced by it
C18_Witness ==
    /\ mi >= 1
    /\ K("a") \in DOMAIN mprev /\ K("a") \in DOMAIN Incoming
    /\ mprev[K("a")].tag = "array" /\ Incoming[K("a")].tag = "array"
    /\ mprev[K("a")] # Incoming[K("a")]
    /\ macc[K("a")] = Incoming[K("a")]

----------------------------------------------------------------------------
(* C19, C20: what the phases scan *)

\* a piece after one resolution of the token it is
AfterEnvOnce(part) ==
    IF IsFallbackTok(part) THEN AfterFallback(part) ELSE AfterBraced(part)

ResolvedEnvOnce == [k \in 1..Len(iparts) |-> AfterEnvOnce(iparts[k])]

\* no default of the text holds the start of a token
PlainDefaults ==
    \A k \in 1..Len(iparts) :
        IsFallbackTok(iparts[k]) => ~Contains(DefaultOf(iparts[k]), << "$" >>)

\* no value of the environment holds the start of a token
PlainValues == \A n \in DOMAIN env : ~Contains(env[n], << "$", "{" >>)

\* C19: the environment phase resolves the tokens of the input text, each
\* once: when every ${NAME} of the input is set the phase returns the text with
\* each token replaced by its value or default, whatever the values hold, and
\* it fails only for a ${NAME} of the input whose NAME is unset
C19_OnlyOriginalTokens ==
    (EnvPhaseOver /\ PlainDefaults) =>
        IF UnsetBraced = {}
        THEN icur = Ok(Wrap(Flatten(ResolvedEnvOnce)))
        ELSE /\ istage = "failed"
             /\ icur.err.name \in { NameOf(iparts[k]) : k \in UnsetBraced }

\* C19 where no value of the environment holds ${ : each token of the input is
\* resolved once and only an unset ${NAME} of the input fails the phase
C19_OriginalTokensWhenValuesPlain ==
    (EnvPhaseOver /\ PlainDefaults /\ PlainValues) =>
        IF UnsetBraced = {}
        THEN icur = Ok(Wrap(Flatten(ResolvedEnvOnce)))
        ELSE /\ istage = "failed"
             /\ icur.err.name \in { NameOf(iparts[k]) : k \in UnsetBraced }

\* the environment phase is over for a text with a token of X, and the value
\* of X is the text ${Y}
C19_Witness ==
    /\ EnvPhaseOver /\ PlainDefaults
    /\ VarX \in DOMAIN env /\ env[VarX] = BracedTok(VarY)
    /\ \E k \in 1..Len(iparts) :
         /\ IsFallbackTok(iparts[k]) \/ IsBracedTok(iparts[k])
         /\ NameOf(iparts[k]) = VarX
    /\ UnsetBraced = {}

\* the environment phase turns the piece into the text file:/p
IntroducesFile(part) ==
    /\ IsFallbackTok(part) \/ IsBracedTok(part)
    /\ AfterEnvOnce(part) = PathPText

\* the text is made of pieces that the environment phase turns into file:/p,
\* each followed by a blank or by the end of the value
FileFromEnv ==
    /\ \E k \in 1..Len(iparts) : IntroducesFile(iparts[k])
    /\ \A k \in 1..Len(iparts) :
         \/ iparts[k] = << " " >>
         \/ /\ IntroducesFile(iparts[k])
            /\ k = Len(iparts) \/ iparts[k + 1] = << " " >>

\* a piece after both phases: the content of /p where the token was
AfterBothPhases(part) ==
    IF IntroducesFile(part) THEN escape_toml_string(fs[PathP].content) ELSE part

ResolvedBothPhases == [k \in 1..Len(iparts) |-> AfterBothPhases(iparts[k])]

\* C20: a file: token that the environment phase puts into the text is there,
\* untouched, when that phase ends, and the file phase resolves it: to the
\* content of the file, left as it is even where it holds a ${NAME} of a set
\* variable, or to a read error when the file cannot be read
C20_EnvThenFiles ==
    FileFromEnv =>
        /\ istage = "env_braced" => icur = Ok(Wrap(Flatten(ResolvedEnvOnce)))
        /\ (FilePhaseOver /\ Readable(PathP)) =>
              /\ istage = "done"
              /\ icur = Ok(Wrap(Flatten(ResolvedBothPhases)))
        /\ (FilePhaseOver /\ ~Readable(PathP)) =>
              /\ istage = "failed"
              /\ icur.err.kind = "file_read" /\ icur.err.path = PathP

\* interpolation is done for a text whose file: token came from the value of X,
\* and the result holds the content of the file, a ${Y} with Y set
C20_Witness ==
    /\ FileFromEnv /\ istage = "done"
    /\ \E k \in 1..Len(iparts) : iparts[k] = BracedTok(VarX)
    /\ Readable(PathP) /\ fs[PathP].content = BracedTok(VarY)
    /\ VarY \in DOMAIN env
    /\ Contains(icur.text, BracedTok(VarY))

----------------------------------------------------------------------------
(* C21..C26: the builder's list and the order of load *)

\* the numbers of the sources load has touched, in the order of its steps
TouchedOrder == [n \in 1..Len(ops) |-> ops[n][1]]

\* C21: a step that changes the list is taken before build, appends one source
\* and keeps the sources already there in place; once build is called the list
\* is never changed, the builder never accepts a call again and the result,
\* once returned, stays; load touches the sources in the order of the list,
\* none skipped
C21_AppendOnlyThenConsumed ==
    /\ [][(sources' # sources) =>
             /\ pc = "accumulating" /\ pc' = "accumulating"
             /\ Len(sources') = Len(sources) + 1
             /\ SubSeq(sources', 1, Len(sources)) = sources]_vars
    /\ [][(pc # "accumulating") =>
             /\ pc' # "accumulating"
             /\ sources' = sources
             /\ (pc = "built" => (pc' = "built" /\ result' = result))]_vars
    /\ [](/\ \A i, j \in 1..Len(ops) : i < j => TouchedOrder[i] <= TouchedOrder[j]
          /\ \A n \in 1..Len(ops) : \A m \in 1..TouchedOrder[n] :
                \E k \in 1..n : TouchedOrder[k] = m)

\* three sources of three kinds were added and build went through them in order
C21_Witness ==
    /\ pc = "built" /\ result.status = "Ok"
    /\ Len(sources) = 3
    /\ sources[1].kind = "TomlString"
    /\ sources[2].kind = "File" /\ ~sources[2].required
    /\ sources[3].kind = "File" /\ sources[3].required
    /\ \A m \in 1..3 : \E n \in 1..Len(ops) : TouchedOrder[n] = m

\* the text holds file:/p and file:/pq, both files can be read, and every file
\* token is a file:PATH followed by a blank or by the end of the value
PrefixPair ==
    /\ Separated /\ OnlyFileSimple
    /\ \A k \in 1..Len(iparts) : IsFileSimpleTok(iparts[k]) => Readable(PathOf(iparts[k]))
    /\ \E k, j \in 1..Len(iparts) :
         iparts[k] = FileSimpleTok(PathP) /\ iparts[j] = FileSimpleTok(PathPQ)

\* no file:/p comes before a file:/pq
LongerFirst ==
    \A k, j \in 1..Len(iparts) :
        (iparts[k] = FileSimpleTok(PathP) /\ iparts[j] = FileSimpleTok(PathPQ)) => j < k

\* C22: in a text that holds file:/p and file:/pq, every file:/p is replaced by
\* the content of /p and every file:/pq by the content of /pq
C22_PrefixTokensIndependent ==
    (PrefixPair /\ FilePhaseOver) => icur = Ok(Wrap(Flatten(ResolvedFileSimple)))

\* C22 for the texts where each file:/pq comes before every file:/p
C22_LongerTokenFirst ==
    (PrefixPair /\ LongerFirst /\ FilePhaseOver) =>
        icur = Ok(Wrap(Flatten(ResolvedFileSimple)))

\* interpolation is done for a text with file:/p before file:/pq
C22_Witness ==
    /\ PrefixPair /\ ~LongerFirst /\ istage = "done"
    /\ fs[PathP].content # fs[PathPQ].content

\* no file that can be read holds the text file:
PlainContents ==
    \A p \in DOMAIN fs : Readable(p) => ~Contains(fs[p].content, FilePrefix)

\* C23: for a text whose file tokens are file:PATH:DEFAULT tokens, the file
\* phase succeeds and returns the text with each token replaced once, by the
\* content of its file (as escape_toml_string returns it) or by DEFAULT,
\* whatever the content holds
C23_FileContentIsData ==
    (Separated /\ OnlyFileFallback /\ FilePhaseOver) =>
        /\ istage = "done"
        /\ icur = Ok(Wrap(Flatten(ResolvedFileFallback)))

\* C23 where no file holds the text file: : the phase succeeds with each token
\* replaced once
C23_DataWhenContentPlain ==
    (Separated /\ OnlyFileFallback /\ PlainContents /\ FilePhaseOver) =>
        /\ istage = "done"
        /\ icur = Ok(Wrap(Flatten(ResolvedFileFallback)))

\* the file phase is over for a text with file:/p:d, /p holding file:/q
C23_Witness ==
    /\ Separated /\ OnlyFileFallback /\ FilePhaseOver
    /\ \E k \in 1..Len(iparts) : iparts[k] = FileFallbackTok(PathP, << "d" >>)
    /\ Readable(PathP) /\ fs[PathP].content = FileSimpleTok(PathQ)
    /\ ~Readable(PathQ)

\* the sources that fail, each taken alone
Failing == { i \in 1..Len(sources) : SrcFails(sources[i], env, fs) }

\* C24: when build has returned and some source of the list is fatal, load
\* stopped at the first such source: the result is the error of that source,
\* every source before it was taken in order, and load has made no step
\* (existence check, read, interpolation, parse, merge) on a source after it
C24_StopsAtFirstFatal ==
    (pc = "built" /\ \E i \in 1..Len(sources) : SrcFails(sources[i], env, fs)) =>
        /\ idx \in 1..Len(sources)
        /\ SrcFails(sources[idx], env, fs)
        /\ \A j \in 1..(idx - 1) : ~SrcFails(sources[j], env, fs)
        /\ result = ErrConfig(load_one(sources[idx], EmptyTable, env, fs).error)
        /\ \A n \in 1..Len(ops) : TouchedOrder[n] <= idx
        /\ \A m \in 1..idx : \E n \in 1..Len(ops) : TouchedOrder[n] = m
        /\ \A i, j \in 1..Len(ops) : i < j => TouchedOrder[i] <= TouchedOrder[j]

\* the second of three sources failed, the third would have failed otherwise
C24_Witness ==
    /\ pc = "built" /\ Len(sources) = 3
    /\ Failing = {2, 3}
    /\ result.status = "Err"
    /\ result.error # load_one(sources[3], EmptyTable, env, fs).error
    /\ merged # EmptyTable

\* C25: a list that holds only optional files, none of which exists, builds
\* into a handle with the empty table, on which get returns None for every
\* section type; and build returns NoSourcesConfigured exactly when the list
\* is empty
C25_AllOptionalMissing ==
    pc = "built" =>
        /\ (/\ sources # << >>
            /\ \A i \in 1..Len(sources) : IsMissingOptional(sources[i]))
           => /\ result = OkConfig(EmptyTable)
              /\ \A T \in ItemTypes : Config_get(result.inner, T) = None
        /\ result = ErrConfig(NoSourcesConfigured) <=> sources = << >>

\* two optional files, neither there, built
C25_Witness ==
    /\ BuiltOk
    /\ Len(sources) = 2
    /\ \A i \in 1..2 : IsMissingOptional(sources[i])
    /\ sources[1] # sources[2]
    /\ result.inner = EmptyTable

\* build has failed on an optional file
FailedOnOptional ==
    /\ pc = "built" /\ result.status = "Err"
    /\ result.error # NoSourcesConfigured
    /\ sources[idx].kind = "File" /\ ~sources[idx].required

\* C26: build never returns the error of a file that is not there for a
\* source added with add_file, whenever the file went away
C26_OptionalAbsentNeverFatal ==
    FailedOnOptional =>
        /\ result.error # FileNotFound(sources[idx].path)
        /\ result.error # ReadError("NotFound")

\* C26 without the race: an optional file that is not there when load checks
\* for it is skipped, so a build that fails on an optional file has found the
\* file there and fails in reading or loading it
C26_AbsentAtCheckIsSkipped ==
    FailedOnOptional =>
        /\ result.error # FileNotFound(sources[idx].path)
        /\ \E n \in 1..Len(ops) : ops[n] = << idx, "read" >>

\* an optional file was there at the check, was removed, and the build failed
C26_Witness ==
    /\ FailedOnOptional
    /\ result.error = ReadError("NotFound")
    /\ sources[idx].path \notin DOMAIN fs
    /\ \E n \in 1..Len(ops) : ops[n] = << idx, "exists" >>

====
